---- MODULE Spec2Model ----
(***************************************************************************)
(* Model of the two programs of the repository:                            *)
(*   - "Heating/SQA Tool.py": class SerialManager (open, close, is_open,   *)
(*     send with its write-fault recovery, and the reception thread        *)
(*     _read_loop), driven by one caller thread and a device;              *)
(*   - "tetris.py": class TetrisGame (reset, the 7-bag, spawn, collision,  *)
(*     moves, rotation with kicks, hard drop, lock, clear_lines, on_key    *)
(*     and game_loop).                                                     *)
(***************************************************************************)
EXTENDS Integers, Sequences, FiniteSets, TLC

(***************************************************************************)
(* Bounds of the model.                                                    *)
(***************************************************************************)
\* serial.Serial objects the manager may create in one behaviour
MaxHandles == 2
\* calls of open/close/send the caller issues in one behaviour
MaxCalls == 3
\* longest text handed to send() when all texts are enumerated (SpecSend)
MaxText == 2
\* calls issued when all texts are enumerated (SpecSend): open() and the send()s
MaxSendCalls == 2
\* longest byte stream the device sends when all streams are enumerated (SpecRx)
MaxStream == 4
\* rows of the stack on the board when clear_lines() runs (SpecClear)
MaxStack == 4
\* hard drops in one behaviour (SpecBag)
MaxDrops == 9
\* presses of the Down key in one behaviour (SpecSoft)
MaxDowns == 1000
\* key presses in one behaviour (SpecStack)
MaxKeys == 7
\* events (key presses and gravity ticks) in one behaviour (SpecGame)
MaxEvents == 2

(***************************************************************************)
(* Values.                                                                 *)
(***************************************************************************)
\* self.ser = None / self._rx_thread = None
NoHandle == 0
Handles == 1..MaxHandles
Threads == 1..MaxHandles
Ports == {"COM3", "COM4"}
Models == {"ETTR", "UP30", ""}
\* "\r", the terminator UP30 takes, and b"\n", the line end of the reception
CR == 13
LF == 10
\* tetris.py: the grid
COLS == 10
ROWS == 20

\* threading.Lock: its owner
Free == <<"free", 0>>
ByMain == <<"main", 0>>
ByRx(t) == <<"rx", t>>

\* no write has reached any handle yet
NoWrite == [h |-> NoHandle, payload |-> <<>>, text |-> <<>>, model |-> ""]

VARIABLES
  ser,        \* SerialManager.ser: NoHandle or the handle it holds
  nh,         \* serial.Serial objects created so far
  hState,     \* per handle: "unused", "open", "closed", "failed" (close() raised)
  hPort,      \* per handle: Serial.port
  inw,        \* per handle: 1 when the device has bytes waiting (in_waiting > 0)
  stop,       \* SerialManager._stop_event
  rxThread,   \* SerialManager._rx_thread: 0 or the last thread started
  nt,         \* threads started so far
  rx,         \* per thread: its position in _read_loop
  lock,       \* SerialManager._lock
  mainPc,     \* the caller's position
  ret,        \* where a nested close()/open() returns: "idle" or "rec" (send's recovery)
  op,         \* the call the caller is in, or completed last
  result,     \* how the last completed call ended: "ok" or the error raised
  ncalls,     \* calls issued so far
  text,       \* send(): its text argument
  model,      \* send(): its model argument
  payload,    \* send(): the encoded bytes
  portName,   \* open(): its port argument; send(): port_name of the recovery
  faulted,    \* send(): the write or flush raised
  reopened,   \* send(): the recovery's open() returned normally
  wire,       \* the last payload written, and the handle that took it
  steps,      \* what the call in progress (or completed last) did to handles, in order
  rxAll,      \* _read_loop: the bytes the device sends on the handle, in order
  rxStream,   \* _read_loop: those not yet returned by a read
  rxBuf,      \* _read_loop: buffer
  rxOut,      \* _read_loop: the lines handed to on_rx_callback, in order
  board,      \* TetrisGame.board: ROWS rows of COLS cells, top row first
  preBoard,   \* the board when clear_lines() was entered
  cleared,    \* what clear_lines() returned
  gpc,        \* the game's position: "none", "locked" (cells merged), "cleared"
  current,    \* TetrisGame.current: the active piece (kind, x, y, r)
  next_kind,  \* TetrisGame.next_kind: the lookahead
  bag,        \* TetrisGame.bag: the kinds left of the last shuffle; pop() takes the last
  score,      \* TetrisGame.score
  level,      \* TetrisGame.level
  paused,     \* TetrisGame.paused
  game_over,  \* TetrisGame.game_over
  ticking,    \* game_loop is scheduled (root.after) and will run again
  key,        \* the event handled last: a keysym, "tick" (a due gravity tick) or "none"
  nev,        \* events handled so far
  spawned     \* the kinds spawned since the last reset, in the current group of seven

serialVars == <<ser, nh, hState, hPort, inw, stop, rxThread, nt, rx, lock, mainPc,
                ret, op, result, ncalls, text, model, payload, portName, faulted,
                reopened, wire, steps>>

rxVars == <<rxAll, rxStream, rxBuf, rxOut>>

playVars == <<current, next_kind, bag, score, level, paused, game_over, ticking, key,
              nev, spawned>>

gameVars == <<board, preBoard, cleared, gpc, playVars>>

vars == <<serialVars, rxVars, gameVars>>

\* Serial.port of the handle self.ser names ("none" for self.ser = None)
PortOf(h) == IF h = NoHandle THEN "none" ELSE hPort[h]

\* one entry of `steps`: a write taken by handle h, a write or flush that raised
\* on h ("fault"), close() completed on h, serial.Serial(port) attempted
Step(ev, h, p) == [ev |-> ev, h |-> h, port |-> p]

(***************************************************************************)
(* SerialManager.is_open                                                   *)
(***************************************************************************)
is_open == ser # NoHandle /\ hState[ser] = "open"

(***************************************************************************)
(* str.encode("utf-8"), for code points below 2048                         *)
(***************************************************************************)
EncodeChar(c) == IF c < 128 THEN <<c>> ELSE <<192 + (c \div 64), 128 + (c % 64)>>

RECURSIVE Encode(_)
Encode(s) == IF s = <<>> THEN <<>> ELSE EncodeChar(Head(s)) \o Encode(Tail(s))

EndsWithCR(s) == Len(s) > 0 /\ s[Len(s)] = CR

\* Terminated with a defect: the carriage return is appended without looking at the text
Terminated_Always(t, m) == IF m = "UP30" THEN Append(t, CR) ELSE t

\* send(): the model's trailing carriage return
Terminated(t, m) == IF m = "UP30" /\ ~EndsWithCR(t) THEN Append(t, CR) ELSE t

\* send(): payload = text.encode("utf-8") after the terminator handling
Payload(t, m) == Encode(Terminated(t, m))

(***************************************************************************)
(* Initial state: SerialManager.__init__                                   *)
(***************************************************************************)
SerialInit ==
  /\ ser = NoHandle
  /\ nh = 0
  /\ hState = [h \in Handles |-> "unused"]
  /\ hPort = [h \in Handles |-> "none"]
  /\ inw = [h \in Handles |-> 0]
  /\ stop = FALSE
  /\ rxThread = 0
  /\ nt = 0
  /\ rx = [t \in Threads |-> "none"]
  /\ lock = Free
  /\ mainPc = "idle"
  /\ ret = "idle"
  /\ op = "none"
  /\ result = "none"
  /\ ncalls = 0
  /\ text = <<>>
  /\ model = ""
  /\ payload = <<>>
  /\ portName = "none"
  /\ faulted = FALSE
  /\ reopened = FALSE
  /\ wire = NoWrite
  /\ steps = <<>>

\* _read_loop, line 133: buffer = b""; nothing received
RxIdle ==
  /\ rxAll = <<>>
  /\ rxStream = <<>>
  /\ rxBuf = <<>>
  /\ rxOut = <<>>

\* a cell holding None
EmptyCell == ""

\* [None for _ in range(COLS)]
EmptyRow == [c \in 1..COLS |-> EmptyCell]

\* Piece(kind, x, y, r)
Piece(k, x, y, r) == [kind |-> k, x |-> x, y |-> y, r |-> r]

NoPiece == Piece("", 0, 0, 0)

\* no piece is in play
PlayIdle ==
  /\ current = NoPiece
  /\ next_kind = ""
  /\ bag = <<>>
  /\ score = 0
  /\ level = 0
  /\ paused = FALSE
  /\ game_over = FALSE
  /\ ticking = FALSE
  /\ key = "none"
  /\ nev = 0
  /\ spawned = <<>>

\* no game is running (the serial tool and the game are separate programs)
GameIdle ==
  /\ board = <<>>
  /\ preBoard = <<>>
  /\ cleared = 0
  /\ gpc = "none"
  /\ PlayIdle

Init == SerialInit /\ RxIdle /\ GameIdle

(***************************************************************************)
(* The caller: one thread (the GUI thread) issuing open/close/send.        *)
(***************************************************************************)
\* the (text, model) pairs the caller sends: "h" to either model
MainSends == {<<(<<104>>), "ETTR">>, <<(<<104>>), "UP30">>}

\* a call begins: the per-call bookkeeping
Begin(name) ==
  /\ mainPc = "idle"
  /\ ncalls < MaxCalls
  /\ ncalls' = ncalls + 1
  /\ op' = name
  /\ faulted' = FALSE
  /\ reopened' = FALSE
  /\ steps' = <<>>

\* a call returns normally or raises `res` to the caller
Return(res) ==
  /\ mainPc' = "idle"
  /\ ret' = "idle"
  /\ result' = res
  /\ text' = <<>>
  /\ model' = ""
  /\ payload' = <<>>
  /\ portName' = "none"

\* OpenCall with a defect: the is_open() check is missing
OpenCall_NoCheck(p) ==
  /\ Begin("open")
  /\ nh < MaxHandles
  /\ mainPc' = "open_port"
  /\ portName' = p
  /\ UNCHANGED <<ser, nh, hState, hPort, inw, stop, rxThread, nt, rx, lock,
                 ret, result, text, model, payload, wire>>
  /\ UNCHANGED <<rxVars, gameVars>>

\* open(), line 43: raise if already open; else go on to serial.Serial(...)
OpenCall(p) ==
  /\ Begin("open")
  /\ is_open \/ nh < MaxHandles
  /\ IF is_open
       THEN /\ Return("AlreadyOpen")
            /\ UNCHANGED <<ser, nh, hState, hPort, inw, stop, rxThread, nt, rx, lock, wire>>
       ELSE /\ mainPc' = "open_port"
            /\ portName' = p
            /\ UNCHANGED <<ser, nh, hState, hPort, inw, stop, rxThread, nt, rx, lock,
                           ret, result, text, model, payload, wire>>
  /\ UNCHANGED <<rxVars, gameVars>>

\* open(), line 46: serial.Serial(port, ...) returns a handle, assigned to self.ser
OpenPortOk ==
  /\ mainPc = "open_port"
  /\ nh < MaxHandles
  /\ nh' = nh + 1
  /\ ser' = nh + 1
  /\ hState' = [hState EXCEPT ![nh + 1] = "open"]
  /\ hPort' = [hPort EXCEPT ![nh + 1] = portName]
  /\ mainPc' = "open_reset"
  /\ steps' = Append(steps, Step("open", NoHandle, portName))
  /\ UNCHANGED <<inw, stop, rxThread, nt, rx, lock, ret, op, result, ncalls, text,
                 model, payload, portName, faulted, reopened, wire>>
  /\ UNCHANGED <<rxVars, gameVars>>

\* how a failed open() ends: raised to the caller, or caught inside send's recovery
OpenFailed ==
  IF ret = "rec"
    THEN /\ mainPc' = "rec_raise"
         /\ UNCHANGED <<ret, result, text, model, payload, portName>>
    ELSE Return("TransportError")

\* OpenPortFail with a defect: the recovery of send() tries serial.Serial again
OpenPortFail_Retries ==
  /\ mainPc = "open_port"
  /\ IF ret = "rec"
       THEN UNCHANGED <<mainPc, ret, result, text, model, payload, portName>>
       ELSE Return("TransportError")
  /\ steps' = Append(steps, Step("open", NoHandle, portName))
  /\ UNCHANGED <<ser, nh, hState, hPort, inw, stop, rxThread, nt, rx, lock, op,
                 ncalls, faulted, reopened, wire>>
  /\ UNCHANGED <<rxVars, gameVars>>

\* open(), line 46: serial.Serial(port, ...) raises; self.ser is not assigned
OpenPortFail ==
  /\ mainPc = "open_port"
  /\ OpenFailed
  /\ steps' = Append(steps, Step("open", NoHandle, portName))
  /\ UNCHANGED <<ser, nh, hState, hPort, inw, stop, rxThread, nt, rx, lock, op,
                 ncalls, faulted, reopened, wire>>
  /\ UNCHANGED <<rxVars, gameVars>>

\* open(), lines 49-55: both buffers reset, stop event cleared, thread started
OpenStartOk ==
  /\ mainPc = "open_reset"
  /\ inw' = [inw EXCEPT ![ser] = 0]
  /\ stop' = FALSE
  /\ nt' = nt + 1
  /\ rxThread' = nt + 1
  /\ rx' = [rx EXCEPT ![nt + 1] = "loop"]
  /\ IF ret = "rec"
       THEN /\ mainPc' = "rec_raise"
            /\ reopened' = TRUE
            /\ UNCHANGED <<ret, result, text, model, payload, portName>>
       ELSE /\ Return("ok")
            /\ UNCHANGED reopened
  /\ UNCHANGED <<ser, nh, hState, hPort, lock, op, ncalls, faulted, wire>>
  /\ UNCHANGED <<steps, rxVars, gameVars>>

\* open(), lines 49-50: a buffer reset raises; self.ser keeps the new handle
OpenResetFail ==
  /\ mainPc = "open_reset"
  /\ OpenFailed
  /\ UNCHANGED <<ser, nh, hState, hPort, inw, stop, rxThread, nt, rx, lock, op,
                 ncalls, faulted, reopened, wire>>
  /\ UNCHANGED <<steps, rxVars, gameVars>>

\* close(), line 62: the stop event is set
CloseCall ==
  /\ Begin("close")
  /\ stop' = TRUE
  /\ mainPc' = "close_join"
  /\ UNCHANGED <<ser, nh, hState, hPort, inw, rxThread, nt, rx, lock, ret, result,
                 text, model, payload, portName, wire>>
  /\ UNCHANGED <<rxVars, gameVars>>

\* join(timeout=1.0) gives up: the thread is blocked on the lock the joining
\* caller holds, so it cannot finish within the second (a loop iteration that is
\* not blocked takes at most the 0.03 s sleep or one read).
JoinTimesOut == rxThread # 0 /\ rx[rxThread] = "waitlock" /\ lock = ByMain

\* self._rx_thread and self._rx_thread.is_alive()
RxAlive == rxThread # 0 /\ rx[rxThread] # "dead"

\* close(), lines 64-65: join the thread if it is alive
CloseJoin ==
  /\ mainPc = "close_join"
  /\ RxAlive => JoinTimesOut
  /\ mainPc' = "close_handle"
  /\ UNCHANGED <<ser, nh, hState, hPort, inw, stop, rxThread, nt, rx, lock, ret, op,
                 result, ncalls, text, model, payload, portName, faulted, reopened, wire>>
  /\ UNCHANGED <<steps, rxVars, gameVars>>

\* close(), lines 67-71: self.ser.close(); an exception it raises is swallowed
CloseHandle ==
  /\ mainPc = "close_handle"
  /\ IF ser = NoHandle
       THEN UNCHANGED hState
       ELSE \/ hState' = [hState EXCEPT ![ser] = "closed"]
            \/ hState' = [hState EXCEPT ![ser] = "failed"]
  /\ mainPc' = "close_clear"
  /\ UNCHANGED <<ser, nh, hPort, inw, stop, rxThread, nt, rx, lock, ret, op, result,
                 ncalls, text, model, payload, portName, faulted, reopened, wire>>
  /\ UNCHANGED <<steps, rxVars, gameVars>>

\* CloseClear with a defect: self.ser keeps the closed handle
CloseClear_KeepsHandle ==
  /\ mainPc = "close_clear"
  /\ IF ret = "rec"
       THEN /\ mainPc' = "open_port"
            /\ UNCHANGED <<ret, result, text, model, payload, portName>>
       ELSE Return("ok")
  /\ steps' = Append(steps, Step("close", ser, PortOf(ser)))
  /\ UNCHANGED <<ser, nh, hState, hPort, inw, stop, rxThread, nt, rx, lock, op, ncalls,
                 faulted, reopened, wire>>
  /\ UNCHANGED <<rxVars, gameVars>>

\* close(), line 72: self.ser = None, and close() returns (never raises);
\* in send's recovery, sleep(1.0) and open(port_name) follow (is_open() is false)
CloseClear ==
  /\ mainPc = "close_clear"
  /\ ser' = NoHandle
  /\ IF ret = "rec"
       THEN /\ mainPc' = "open_port"
            /\ UNCHANGED <<ret, result, text, model, payload, portName>>
       ELSE Return("ok")
  /\ steps' = Append(steps, Step("close", ser, PortOf(ser)))
  /\ UNCHANGED <<nh, hState, hPort, inw, stop, rxThread, nt, rx, lock, op, ncalls,
                 faulted, reopened, wire>>
  /\ UNCHANGED <<rxVars, gameVars>>

\* SendCall with a defect: the is_open() check is missing
SendCall_NoCheck(t, m) ==
  /\ Begin("send")
  /\ mainPc' = "send_lock"
  /\ text' = t
  /\ model' = m
  /\ payload' = Payload(t, m)
  /\ UNCHANGED <<ret, result, portName>>
  /\ UNCHANGED <<ser, nh, hState, hPort, inw, stop, rxThread, nt, rx, lock, wire>>
  /\ UNCHANGED <<rxVars, gameVars>>

\* send(), lines 87-97: raise if not open; else build the payload
SendCall(t, m) ==
  /\ Begin("send")
  /\ IF ~is_open
       THEN /\ Return("NotOpen")
       ELSE /\ mainPc' = "send_lock"
            /\ text' = t
            /\ model' = m
            /\ payload' = Payload(t, m)
            /\ UNCHANGED <<ret, result, portName>>
  /\ UNCHANGED <<ser, nh, hState, hPort, inw, stop, rxThread, nt, rx, lock, wire>>
  /\ UNCHANGED <<rxVars, gameVars>>

\* send(), line 100: with self._lock
SendAcquire ==
  /\ mainPc = "send_lock"
  /\ lock = Free
  /\ lock' = ByMain
  /\ mainPc' = "send_write"
  /\ UNCHANGED <<ser, nh, hState, hPort, inw, stop, rxThread, nt, rx, ret, op, result,
                 ncalls, text, model, payload, portName, faulted, reopened, wire>>
  /\ UNCHANGED <<steps, rxVars, gameVars>>

\* what the handle has taken once write(payload) returned
Written == [h |-> ser, payload |-> payload, text |-> text, model |-> model]

\* send(), lines 103-105: write and flush succeed; the settle delay begins
SendWrite ==
  /\ mainPc = "send_write"
  /\ wire' = Written
  /\ steps' = Append(steps, Step("write", ser, PortOf(ser)))
  /\ mainPc' = "send_sleep"
  /\ UNCHANGED <<ser, nh, hState, hPort, inw, stop, rxThread, nt, rx, lock, ret, op,
                 result, ncalls, text, model, payload, portName, faulted, reopened>>
  /\ UNCHANGED <<rxVars, gameVars>>

\* send(), lines 103-105 and 112-117: write raises (nothing written) or flush
\* raises (the payload was handed over); the handler reads self.ser.port and
\* enters close(), whose first statement sets the stop event
SendFault ==
  /\ mainPc = "send_write"
  /\ nh < MaxHandles
  /\ \/ /\ wire' = wire
        /\ steps' = Append(steps, Step("fault", ser, PortOf(ser)))
     \/ /\ wire' = Written
        /\ steps' = steps \o <<Step("write", ser, PortOf(ser)),
                                Step("fault", ser, PortOf(ser))>>
  /\ faulted' = TRUE
  /\ portName' = hPort[ser]
  /\ stop' = TRUE
  /\ ret' = "rec"
  /\ mainPc' = "close_join"
  /\ UNCHANGED <<ser, nh, hState, hPort, inw, rxThread, nt, rx, lock, op, result,
                 ncalls, text, model, payload, reopened>>
  /\ UNCHANGED <<rxVars, gameVars>>

\* send(), lines 109-110: the settle delay elapses (time.sleep(delay), inside the
\* with block of line 100); then the with block ends and releases the lock
SendSleep ==
  /\ mainPc = "send_sleep"
  /\ lock' = Free
  /\ Return("ok")
  /\ UNCHANGED <<ser, nh, hState, hPort, inw, stop, rxThread, nt, rx, op, ncalls,
                 faulted, reopened, wire>>
  /\ UNCHANGED <<steps, rxVars, gameVars>>

\* send(), lines 122-124: except Exception as e2: raise SerialException(...)
Rewrap(e2) == "ReconnectFailed"

\* send(), lines 119-124: the error the caller receives after the recovery. The
\* raise of line 121 stands inside the try of line 115, so the except of line 122
\* catches it as it catches a failed open(), and raises the error of line 124.
RecoveryError(reopenOk) ==
  LET raised == IF reopenOk THEN "TransportError" ELSE "OpenError"
  IN  Rewrap(raised)

\* SendRaise with a defect: the lock is not released when the exception leaves send()
SendRaise_KeepsLock ==
  /\ mainPc = "rec_raise"
  /\ Return(RecoveryError(reopened))
  /\ UNCHANGED <<ser, nh, hState, hPort, inw, stop, rxThread, nt, rx, lock, op, ncalls,
                 faulted, reopened, wire>>
  /\ UNCHANGED <<steps, rxVars, gameVars>>

\* send(), lines 121-124: the exception leaves the with block, releasing the lock
SendRaise ==
  /\ mainPc = "rec_raise"
  /\ lock' = Free
  /\ Return(RecoveryError(reopened))
  /\ UNCHANGED <<ser, nh, hState, hPort, inw, stop, rxThread, nt, rx, op, ncalls,
                 faulted, reopened, wire>>
  /\ UNCHANGED <<steps, rxVars, gameVars>>

Caller ==
  \/ \E p \in Ports : OpenCall(p)
  \/ OpenPortOk
  \/ OpenPortFail
  \/ OpenStartOk
  \/ OpenResetFail
  \/ CloseCall
  \/ CloseJoin
  \/ CloseHandle
  \/ CloseClear
  \/ \E s \in MainSends : SendCall(s[1], s[2])
  \/ SendAcquire
  \/ SendWrite
  \/ SendFault
  \/ SendSleep
  \/ SendRaise

(***************************************************************************)
(* The reception thread: SerialManager._read_loop                          *)
(***************************************************************************)
\* line 134: while not self._stop_event.is_set()
RxLoop(t) ==
  /\ rx[t] = "loop"
  /\ rx' = [rx EXCEPT ![t] = IF stop THEN "dead" ELSE "poll"]
  /\ UNCHANGED <<ser, nh, hState, hPort, inw, stop, rxThread, nt, lock, mainPc, ret,
                 op, result, ncalls, text, model, payload, portName, faulted,
                 reopened, wire>>
  /\ UNCHANGED <<steps, rxVars, gameVars>>

\* lines 136, 150-152: self.ser and self.ser.in_waiting; no bytes (or no handle):
\* sleep 0.03 s and loop; bytes: go for the lock. A handle whose close() raised
\* may still answer.
RxPoll(t) ==
  /\ rx[t] = "poll"
  /\ IF ser = NoHandle
       THEN rx' = [rx EXCEPT ![t] = "loop"]
       ELSE /\ hState[ser] \in {"open", "failed"}
            /\ rx' = [rx EXCEPT ![t] = IF inw[ser] > 0 THEN "waitlock" ELSE "loop"]
  /\ UNCHANGED <<ser, nh, hState, hPort, inw, stop, rxThread, nt, lock, mainPc, ret,
                 op, result, ncalls, text, model, payload, portName, faulted,
                 reopened, wire>>
  /\ UNCHANGED <<steps, rxVars, gameVars>>

\* lines 136, 153-155: in_waiting raises (the port is closed, or a transport
\* fault): the loop is left
RxPollFault(t) ==
  /\ rx[t] = "poll"
  /\ ser # NoHandle
  /\ rx' = [rx EXCEPT ![t] = "dead"]
  /\ UNCHANGED <<ser, nh, hState, hPort, inw, stop, rxThread, nt, lock, mainPc, ret,
                 op, result, ncalls, text, model, payload, portName, faulted,
                 reopened, wire>>
  /\ UNCHANGED <<steps, rxVars, gameVars>>

\* RxAcquire with a defect: the read is entered without taking the lock
RxAcquire_NoLock(t) ==
  /\ rx[t] = "waitlock"
  /\ rx' = [rx EXCEPT ![t] = "read"]
  /\ UNCHANGED <<ser, nh, hState, hPort, inw, stop, rxThread, nt, lock, mainPc, ret, op,
                 result, ncalls, text, model, payload, portName, faulted, reopened,
                 wire>>
  /\ UNCHANGED <<steps, rxVars, gameVars>>

\* line 138: with self._lock
RxAcquire(t) ==
  /\ rx[t] = "waitlock"
  /\ lock = Free
  /\ lock' = ByRx(t)
  /\ rx' = [rx EXCEPT ![t] = "read"]
  /\ UNCHANGED <<ser, nh, hState, hPort, inw, stop, rxThread, nt, mainPc, ret, op,
                 result, ncalls, text, model, payload, portName, faulted, reopened,
                 wire>>
  /\ UNCHANGED <<steps, rxVars, gameVars>>

\* lines 139-149: self.ser.read(self.ser.in_waiting) on the handle self.ser names
\* now; the lock is released; the bytes are framed and delivered (RxFeed below)
RxRead(t) ==
  /\ rx[t] = "read"
  /\ ser # NoHandle
  /\ hState[ser] \in {"open", "failed"}
  /\ inw' = [inw EXCEPT ![ser] = 0]
  /\ lock' = Free
  /\ rx' = [rx EXCEPT ![t] = "loop"]
  /\ UNCHANGED <<ser, nh, hState, hPort, stop, rxThread, nt, mainPc, ret, op, result,
                 ncalls, text, model, payload, portName, faulted, reopened, wire>>
  /\ UNCHANGED <<steps, rxVars, gameVars>>

\* RxReadFault with a defect: the thread closes and drops the handle on a fault
RxReadFault_Closes(t) ==
  /\ rx[t] = "read"
  /\ lock' = Free
  /\ rx' = [rx EXCEPT ![t] = "dead"]
  /\ ser' = NoHandle
  /\ hState' = IF ser = NoHandle THEN hState ELSE [hState EXCEPT ![ser] = "closed"]
  /\ UNCHANGED <<nh, hPort, inw, stop, rxThread, nt, mainPc, ret, op,
                 result, ncalls, text, model, payload, portName, faulted, reopened,
                 wire>>
  /\ UNCHANGED <<steps, rxVars, gameVars>>

\* line 139 raising: self.ser is None by now (AttributeError, not caught: the
\* thread ends), or the read raises SerialException (closed port, transport
\* fault: break). The with block releases the lock either way.
RxReadFault(t) ==
  /\ rx[t] = "read"
  /\ lock' = Free
  /\ rx' = [rx EXCEPT ![t] = "dead"]
  /\ UNCHANGED <<ser, nh, hState, hPort, inw, stop, rxThread, nt, mainPc, ret, op,
                 result, ncalls, text, model, payload, portName, faulted, reopened,
                 wire>>
  /\ UNCHANGED <<steps, rxVars, gameVars>>

Receiver ==
  \E t \in Threads :
    \/ RxLoop(t)
    \/ RxPoll(t)
    \/ RxPollFault(t)
    \/ RxAcquire(t)
    \/ RxRead(t)
    \/ RxReadFault(t)

(***************************************************************************)
(* The device: bytes arrive on an open handle.                             *)
(***************************************************************************)
DeviceData ==
  /\ \E h \in Handles :
       /\ hState[h] = "open"
       /\ inw[h] = 0
       /\ inw' = [inw EXCEPT ![h] = 1]
  /\ UNCHANGED <<ser, nh, hState, hPort, stop, rxThread, nt, rx, lock, mainPc, ret, op,
                 result, ncalls, text, model, payload, portName, faulted, reopened,
                 wire>>
  /\ UNCHANGED <<steps, rxVars, gameVars>>

Next == Caller \/ Receiver \/ DeviceData

Spec == Init /\ [][Next]_vars

(***************************************************************************)
(* Properties of SerialManager under Spec.                                 *)
(***************************************************************************)
\* the reception threads that were started and have not ended
AliveThreads == {t \in Threads : rx[t] \notin {"none", "dead"}}

\* the handles the manager opened and has not passed to close() yet (a handle
\* whose close() raised is dropped by the manager like one that closed)
OpenHandles == {h \in Handles : hState[h] = "open"}

\* what open(), close() and send() may touch besides the caller's own locals
managerState == <<ser, nh, hState, hPort, inw, stop, rxThread, nt, rx, lock, wire>>

\* the caller has just come back from a send() whose write or flush raised
AfterFaultedSend == op = "send" /\ mainPc = "idle" /\ faulted

\* C1: when send() hits a write or flush fault and the reopen on the same port
\* succeeds, send() raises to the caller (never returns normally); afterwards the
\* manager is open on the new handle, send() no longer holds the guard, and every
\* payload a send() writes goes to the handle the manager holds, which is open.
C1_RecoveredSendLeavesUsable ==
  /\ (AfterFaultedSend /\ reopened) =>
       /\ result # "ok"
       /\ is_open
       /\ ser = nh
       /\ hPort[ser] = hPort[ser - 1]
       /\ lock # ByMain
  /\ mainPc = "send_sleep" =>
       /\ is_open
       /\ wire.h = ser
       /\ wire.payload = payload

\* C1 witness: the third call, a send() in its settle delay after writing to
\* handle 2, which only a recovered send() as second call can have opened (a
\* close() and an open() would be two calls).
C1_Witness ==
  /\ ncalls = 3
  /\ mainPc = "send_sleep"
  /\ wire.h = 2
  /\ ser = 2
  /\ hState[1] \in {"closed", "failed"}

\* C2: after a write fault the error tells the two outcomes apart: TransportError
\* when the reopen succeeded, ReconnectFailed only when the reopen failed.
C2_ErrorTellsOutcome ==
  AfterFaultedSend => result = (IF reopened THEN "TransportError" ELSE "ReconnectFailed")

\* C3: in every reachable state at most one reception task is alive.
C3_OneReceptionTask == Cardinality(AliveThreads) <= 1

\* C4: send() holds the guard only around write and flush: during the settle
\* delay the guard is not held by send().
C4_GuardFreeDuringDelay == mainPc = "send_sleep" => lock # ByMain

\* C5: open() on an open manager fails with AlreadyOpen and leaves the handle, the
\* stop signal and the reception task unchanged; at most one handle is open in
\* every reachable state.
C5_OpenWhileOpenRejected ==
  /\ [](Cardinality(OpenHandles) <= 1)
  /\ [][(is_open /\ op' = "open" /\ ncalls' = ncalls + 1) =>
          /\ mainPc' = "idle"
          /\ result' = "AlreadyOpen"
          /\ UNCHANGED managerState]_vars

\* C5 witness: an open() was rejected while the handle is open and its task runs.
C5_Witness ==
  /\ op = "open"
  /\ mainPc = "idle"
  /\ result = "AlreadyOpen"
  /\ is_open
  /\ rxThread \in AliveThreads

\* C6: close() never raises and leaves the manager closed, whatever the state it
\* is called in (also when the handle's close fails); a close() on a manager a
\* close() has already closed changes nothing.
C6_CloseIdempotent ==
  /\ []((op = "close" /\ mainPc = "idle") =>
          (result = "ok" /\ ser = NoHandle /\ ~is_open /\ stop))
  /\ [][(ser = NoHandle /\ stop /\ op' = "close" /\ mainPc' # mainPc) =>
          UNCHANGED managerState]_vars

\* C6 witness: the third call is a close() under way on a manager that the second
\* call, a close() that returned normally, left closed after the handle's close
\* raised.
C6_Witness ==
  /\ ncalls = 3
  /\ op = "close"
  /\ mainPc = "close_handle"
  /\ result = "ok"
  /\ ser = NoHandle
  /\ nh = 1
  /\ hState[1] = "failed"

\* C10: send() on a manager that is not open fails with NotOpen, writes nothing,
\* attempts no reconnect and leaves the manager's state unchanged.
C10_SendNotOpen ==
  [][(~is_open /\ op' = "send" /\ ncalls' = ncalls + 1) =>
       /\ mainPc' = "idle"
       /\ result' = "NotOpen"
       /\ UNCHANGED managerState]_vars

\* C10 witness: a send() was refused with NotOpen after a close().
C10_Witness ==
  /\ op = "send"
  /\ mainPc = "idle"
  /\ result = "NotOpen"
  /\ nh = 1
  /\ ser = NoHandle

\* what the recovery of a send() that faulted on handle h does, in order
RecoverySteps(h) ==
  <<Step("fault", h, hPort[h]), Step("close", h, hPort[h]),
    Step("open", NoHandle, hPort[h])>>

IsPrefix(a, b) == Len(a) <= Len(b) /\ a = SubSeq(b, 1, Len(a))

\* C11: once the write or flush of a send() has raised on a handle, the call
\* does, in this order and each exactly once, a complete close() of that handle
\* and one open() on the port read from that handle; the payload is written at
\* most once, before the fault, and nothing follows the open() whether it
\* succeeded or failed.
C11_RecoveryOnce ==
  faulted =>
    \E h \in Handles :
      \E written \in {<<>>, <<Step("write", h, hPort[h])>>} :
        /\ hState[h] # "unused"
        /\ IsPrefix(steps, written \o RecoverySteps(h))
        /\ Len(steps) > Len(written)
        /\ mainPc \in {"idle", "rec_raise"} => steps = written \o RecoverySteps(h)

\* C11 witness: a send() whose flush raised has returned after the close() and
\* a successful open().
C11_Witness ==
  /\ AfterFaultedSend
  /\ reopened
  /\ Len(steps) = 4
  /\ steps[1].ev = "write"

\* the reception thread t leaves _read_loop on a fault of in_waiting or read()
\* (line 153), not on the stop event
RxFaultExit(t) == rx[t] \in {"poll", "read"} /\ rx'[t] = "dead"

\* C13: a read fault ends the reception thread and nothing else: no close(),
\* no reopen; the handle and the manager's state stay as they were, an open
\* manager stays open, and a send() issued afterwards is accepted.
C13_ReadFaultOnlyEndsTask ==
  /\ [][(\E t \in Threads : RxFaultExit(t)) =>
          /\ UNCHANGED <<ser, nh, hState, hPort, stop, rxThread, nt, mainPc, ret, op,
                         result, ncalls, steps, wire>>
          /\ is_open => is_open']_vars
  /\ [][(is_open /\ op' = "send" /\ ncalls' = ncalls + 1) =>
          (mainPc' = "send_lock" /\ UNCHANGED managerState)]_vars

\* C13 witness: the reception thread ended on a read fault (the stop event was
\* never set for it), the manager is open, and a send() has written since.
C13_Witness ==
  /\ is_open
  /\ rxThread # 0
  /\ rx[rxThread] = "dead"
  /\ ~stop
  /\ mainPc = "send_sleep"
  /\ wire.h = ser

\* the caller is inside write()/flush() of send() (lines 103-105)
MainInHandle == mainPc = "send_write"

\* the threads inside read() of _read_loop (line 139)
ThreadsInHandle == {t \in Threads : rx[t] = "read"}

\* C18: the write/flush of send() and the read of the reception thread are
\* never in progress together: whoever is inside holds the lock.
C18_WriteReadExclusive ==
  /\ MainInHandle => (lock = ByMain /\ ThreadsInHandle = {})
  /\ \A t \in ThreadsInHandle : lock = ByRx(t)
  /\ Cardinality(ThreadsInHandle) <= 1

\* C18 witness: the caller is inside the write while the reception thread,
\* with bytes to read, waits for the lock.
C18_Witness ==
  /\ MainInHandle
  /\ rxThread # 0
  /\ rx[rxThread] = "waitlock"

(***************************************************************************)
(* FairSpec: Spec with the scheduling the threads get: a thread that can   *)
(* take a step of its code does; new calls are never forced, and a fault   *)
(* is forced only where the code has no other outcome.                     *)
(***************************************************************************)
\* the caller's steps inside a call
CallerStep ==
  \/ OpenPortOk
  \/ OpenPortFail
  \/ OpenStartOk
  \/ OpenResetFail
  \/ CloseJoin
  \/ CloseHandle
  \/ CloseClear
  \/ SendAcquire
  \/ SendWrite
  \/ SendSleep
  \/ SendRaise

\* in_waiting and read() can only raise: self.ser is None or names a closed port
RxMustFault == IF ser = NoHandle THEN TRUE ELSE hState[ser] = "closed"

\* the reception thread's steps; a fault only where it is the one outcome
RxStep(t) ==
  \/ RxLoop(t)
  \/ RxPoll(t)
  \/ RxAcquire(t)
  \/ RxRead(t)
  \/ (RxMustFault /\ (RxPollFault(t) \/ RxReadFault(t)))

FairSpec ==
  /\ Spec
  /\ SF_vars(CallerStep)
  /\ \A t \in Threads : SF_vars(RxStep(t))

\* C12: a reception thread that is running when close() is invoked (the stop
\* event has just been set, the join is next) ends eventually.
C12_StoppedTaskExits ==
  \A t \in Threads :
    (mainPc = "close_join" /\ rx[t] \notin {"none", "dead"}) ~> (rx[t] = "dead")

\* the caller is inside a send() that passed the is_open() check
InSend == op = "send" /\ mainPc # "idle"

\* the close() of send's recovery is at its join while the reception thread
\* waits for the lock send() holds
JoinBlocked == InSend /\ mainPc = "close_join" /\ JoinTimesOut

\* send() comes back to its caller on every path (under FairSpec), also from
\* the join of a thread that waits for the lock
SendTerminates == (InSend ~> mainPc = "idle") /\ (JoinBlocked ~> mainPc = "idle")

\* whenever the caller is outside a call, the lock is not held by send()
SendReleasesGuard == mainPc = "idle" => lock # ByMain

\* the caller has come back from a send() with ReconnectFailed after its
\* reopen failed (the error alone does not tell, see C2)
AfterFailedReopen == AfterFaultedSend /\ ~reopened

\* C21: send() terminates with the guard released on every path, its close()
\* cannot deadlock with a reception task waiting for the guard, and after a
\* failed reopen the manager is closed, so that a later open() is accepted.
\* The last part is the one stated here: after a send() whose reopen failed
\* the manager is closed, holds no handle, and the guard is free of send().
C21_FailedReopenLeavesClosed ==
  AfterFailedReopen => (~is_open /\ ser = NoHandle /\ lock # ByMain)

\* the caller has come back from an open() that raised a transport error
AfterFailedOpen == op = "open" /\ mainPc = "idle" /\ result = "TransportError"

\* an open() called by the caller ends with a transport error, at serial.Serial
\* (line 46) or at a buffer reset (lines 49-50)
OpenFails == op = "open" /\ mainPc \in {"open_port", "open_reset"} /\ AfterFailedOpen'

\* C22: an open() that fails with a transport error, at the opening of the port
\* or at the clearing of the buffers, leaves the manager closed: is_open() is
\* false, no handle is retained, no reception task was started, and a later
\* open() is not rejected as AlreadyOpen.
C22_FailedOpenLeavesClosed ==
  /\ [](AfterFailedOpen => (~is_open /\ ser = NoHandle))
  /\ [][OpenFails => UNCHANGED <<rxThread, nt, rx>>]_vars
  /\ [][(AfterFailedOpen /\ op' = "open" /\ ncalls' = ncalls + 1) =>
          result' # "AlreadyOpen"]_vars

(***************************************************************************)
(* SpecSend: send() on every text up to MaxText code points and every      *)
(* model, on a manager the caller has opened; no write faults.             *)
(***************************************************************************)
RECURSIVE SeqsUpTo(_, _)
SeqsUpTo(S, n) ==
  IF n = 0 THEN {<<>>}
  ELSE LET shorter == SeqsUpTo(S, n - 1)
       IN  shorter \cup {Append(q, x) : q \in shorter, x \in S}

\* texts of carriage returns, "h" and e-acute (two bytes in UTF-8)
Texts == SeqsUpTo({CR, 104, 233}, MaxText)

NextSend ==
  \/ OpenCall("COM3")
  \/ OpenPortOk
  \/ OpenStartOk
  \/ \E t \in Texts, m \in Models : ncalls < MaxSendCalls /\ SendCall(t, m)
  \/ SendAcquire
  \/ SendWrite
  \/ SendSleep
  \/ Receiver
  \/ DeviceData

SpecSend == Init /\ [][NextSend]_vars

\* the number of carriage returns a sequence ends with
RECURSIVE TrailingCRs(_)
TrailingCRs(q) ==
  IF q # <<>> /\ q[Len(q)] = CR THEN 1 + TrailingCRs(SubSeq(q, 1, Len(q) - 1)) ELSE 0

\* C9: for every model and every text, the payload send() writes is the encoded
\* text with exactly one carriage return appended when the model is UP30 and the
\* text does not end in one, and the encoded text unchanged otherwise (UP30 text
\* already ending in a carriage return; any other model).
C9_PayloadTerminator ==
  wire.h # NoHandle =>
    LET t == wire.text
        m == wire.model
        p == wire.payload
    IN  /\ (m = "UP30" /\ TrailingCRs(t) = 0) =>
             (p = Encode(t) \o <<CR>> /\ TrailingCRs(p) = 1)
        /\ (m = "UP30" /\ TrailingCRs(t) > 0) =>
             (p = Encode(t) /\ TrailingCRs(p) = TrailingCRs(t))
        /\ m # "UP30" => (p = Encode(t) /\ TrailingCRs(p) = TrailingCRs(t))

\* C9 witness: a UP30 text ending in a carriage return went out unchanged, its
\* two-byte character encoded.
C9_Witness ==
  /\ wire.h # NoHandle
  /\ wire.model = "UP30"
  /\ wire.text = <<233, CR>>
  /\ wire.payload = <<195, 169, CR>>

(***************************************************************************)
(* SpecRx: the framing of _read_loop (lines 140-149) on every byte stream  *)
(* up to MaxStream bytes, and on the stream "OK\nREADY\nPART", under every *)
(* way the reads cut the stream into chunks.                               *)
(***************************************************************************)
\* bytes.strip(): ASCII whitespace
Whitespace == {9, 10, 11, 12, 13, 32}

RECURSIVE LStrip(_)
LStrip(q) == IF q # <<>> /\ Head(q) \in Whitespace THEN LStrip(Tail(q)) ELSE q

RECURSIVE RStrip(_)
RStrip(q) ==
  IF q # <<>> /\ q[Len(q)] \in Whitespace THEN RStrip(SubSeq(q, 1, Len(q) - 1)) ELSE q

Strip(q) == RStrip(LStrip(q))

HasLF(q) == \E i \in 1..Len(q) : q[i] = LF

\* bytes.split(b"\n")
RECURSIVE SplitLF(_)
SplitLF(q) ==
  IF ~HasLF(q) THEN <<q>>
  ELSE LET i == CHOOSE k \in 1..Len(q) : q[k] = LF /\ \A j \in 1..(k - 1) : q[j] # LF
       IN  <<SubSeq(q, 1, i - 1)>> \o SplitLF(SubSeq(q, i + 1, Len(q)))

\* line 149: buffer = lines[-1]
Retained(lines) == lines[Len(lines)]

\* Delivered with a defect: the lines are handed over without strip()
Delivered_Unstripped(lines) == [i \in 1..(Len(lines) - 1) |-> lines[i]]

\* lines 146-148: on_rx_callback(line.strip()) for line in lines[:-1]
Delivered(lines) == [i \in 1..(Len(lines) - 1) |-> Strip(lines[i])]

\* lines 139-149: a read returns the next n bytes; they are appended to the
\* buffer, complete lines are delivered and the last fragment is kept
RxFeed ==
  /\ rx[1] = "loop"
  /\ \E n \in 1..Len(rxStream) :
       LET data == SubSeq(rxStream, 1, n)
           buffer == rxBuf \o data
       IN  /\ rxStream' = SubSeq(rxStream, n + 1, Len(rxStream))
           /\ IF HasLF(buffer)
                THEN /\ rxOut' = rxOut \o Delivered(SplitLF(buffer))
                     /\ rxBuf' = Retained(SplitLF(buffer))
                ELSE /\ rxOut' = rxOut
                     /\ rxBuf' = buffer
  /\ UNCHANGED <<serialVars, rxAll, gameVars>>

\* "OK\nREADY\nPART"
ExampleStream == <<79, 75, 10, 82, 69, 65, 68, 89, 10, 80, 65, 82, 84>>

\* streams of line feeds, spaces and "A"
Streams == SeqsUpTo({LF, 32, 65}, MaxStream) \cup {ExampleStream}

\* the manager after open("COM3") returned: handle 1 open, thread 1 in its loop
SerialOpened ==
  /\ ser = 1
  /\ nh = 1
  /\ hState = [h \in Handles |-> IF h = 1 THEN "open" ELSE "unused"]
  /\ hPort = [h \in Handles |-> IF h = 1 THEN "COM3" ELSE "none"]
  /\ inw = [h \in Handles |-> 0]
  /\ stop = FALSE
  /\ rxThread = 1
  /\ nt = 1
  /\ rx = [t \in Threads |-> IF t = 1 THEN "loop" ELSE "none"]
  /\ lock = Free
  /\ mainPc = "idle"
  /\ ret = "idle"
  /\ op = "open"
  /\ result = "ok"
  /\ ncalls = 1
  /\ text = <<>>
  /\ model = ""
  /\ payload = <<>>
  /\ portName = "none"
  /\ faulted = FALSE
  /\ reopened = FALSE
  /\ wire = NoWrite
  /\ steps = <<Step("open", NoHandle, "COM3")>>

InitRx ==
  /\ SerialOpened
  /\ rxAll \in Streams
  /\ rxStream = rxAll
  /\ rxBuf = <<>>
  /\ rxOut = <<>>
  /\ GameIdle

NextRx == RxFeed

SpecRx == InitRx /\ [][NextRx]_vars

\* the bytes the reads have returned so far
Consumed == SubSeq(rxAll, 1, Len(rxAll) - Len(rxStream))

\* the positions of the line feeds among them
LFPositions == {i \in 1..Len(Consumed) : Consumed[i] = LF}

\* the position of the j-th line feed, and 0 for j = 0
LFAt(j) ==
  IF j = 0 THEN 0
  ELSE CHOOSE i \in LFPositions : Cardinality({k \in LFPositions : k < i}) = j - 1

\* the bytes between the (j-1)-th and the j-th line feed
Segment(j) == SubSeq(Consumed, LFAt(j - 1) + 1, LFAt(j) - 1)

\* a segment without its leading and trailing whitespace
Trimmed(q) ==
  LET solid == {i \in 1..Len(q) : q[i] \notin Whitespace}
  IN  IF solid = {} THEN <<>>
      ELSE SubSeq(q, CHOOSE i \in solid : \A k \in solid : i <= k,
                     CHOOSE i \in solid : \A k \in solid : i >= k)

\* C7: for every byte stream a reception task reads and every way the reads cut
\* it into chunks, the callback has received exactly the segments that precede
\* each line feed read so far, trimmed of surrounding whitespace, in stream order
\* and once each, and the buffer holds exactly the bytes after the last line feed.
C7_LineFraming ==
  LET k == Cardinality(LFPositions)
  IN  /\ Len(rxOut) = k
      /\ \A j \in 1..k : rxOut[j] = Trimmed(Segment(j))
      /\ rxBuf = SubSeq(Consumed, LFAt(k) + 1, Len(Consumed))

\* C7 witness: "OK\nREADY\nPART" was read to its end: "OK" then "READY" were
\* delivered and "PART" is retained.
C7_Witness ==
  /\ rxAll = ExampleStream
  /\ rxStream = <<>>
  /\ rxOut = <<(<<79, 75>>), (<<82, 69, 65, 68, 89>>)>>
  /\ rxBuf = <<80, 65, 82, 84>>

(***************************************************************************)
(* SpecClear: TetrisGame.clear_lines on the boards lock_piece can hand it: *)
(* a stack of up to MaxStack non-empty rows at the bottom, each full or    *)
(* with a gap, at most four of them full (a piece spans at most four rows).*)
(***************************************************************************)
\* all(r)
IsFull(row) == \A c \in 1..COLS : row[c] # EmptyCell

\* line 194: the indices of the full rows, ascending
FullRows(b) ==
  LET RECURSIVE From(_)
      From(i) == IF i > Len(b) THEN <<>>
                 ELSE (IF IsFull(b[i]) THEN <<i>> ELSE <<>>) \o From(i + 1)
  IN  From(1)

\* lines 196-197: del self.board[i]; self.board.insert(0, [None] * COLS)
DeleteAndInsert(b, i) == <<EmptyRow>> \o SubSeq(b, 1, i - 1) \o SubSeq(b, i + 1, Len(b))

\* line 195: for i in reversed(full), the indices taken as they were computed
RECURSIVE ClearReversed(_, _)
ClearReversed(b, full) ==
  IF full = <<>> THEN b
  ELSE ClearReversed(DeleteAndInsert(b, full[Len(full)]), SubSeq(full, 1, Len(full) - 1))

\* clear_lines(): the board it leaves and the count it returns
clear_lines(b) == [board |-> ClearReversed(b, FullRows(b)), count |-> Len(FullRows(b))]

StackRows ==
  { [c \in 1..COLS |-> "I"],
    [c \in 1..COLS |-> IF c = 1 THEN EmptyCell ELSE "T"],
    [c \in 1..COLS |-> IF c = COLS THEN EmptyCell ELSE "L"] }

Stacks == {q \in SeqsUpTo(StackRows, MaxStack) : Len(FullRows(q)) <= 4}

InitClear ==
  /\ SerialInit
  /\ RxIdle
  /\ \E q \in Stacks : board = [r \in 1..(ROWS - Len(q)) |-> EmptyRow] \o q
  /\ preBoard = board
  /\ cleared = 0
  /\ gpc = "locked"
  /\ PlayIdle

\* lock_piece, line 186: cleared = self.clear_lines()
ClearLines ==
  /\ gpc = "locked"
  /\ board' = clear_lines(board).board
  /\ cleared' = clear_lines(board).count
  /\ preBoard' = board
  /\ gpc' = "cleared"
  /\ UNCHANGED <<serialVars, rxVars, playVars>>

NextClear == ClearLines

SpecClear == InitClear /\ [][NextClear]_vars

\* the rows of a board that are not full, in order
NotFullRows(b) == SelectSeq(b, LAMBDA row : ~IsFull(row))

\* C8: after clear_lines() no row of the board is full; the rows that were not
\* full keep their contents and order, shifted down; as many empty rows as there
\* were full rows stand at the top.
C8_ClearRemovesEveryFullRow ==
  gpc = "cleared" =>
    LET n == Len(FullRows(preBoard))
    IN  /\ FullRows(board) = <<>>
        /\ board = [r \in 1..n |-> EmptyRow] \o NotFullRows(preBoard)
        /\ cleared = n

(***************************************************************************)
(* TetrisGame: the pieces, the board and the handlers.                     *)
(* Cells are (cx, cy) offsets as in the source; x and y count from 0, so   *)
(* cell (x, y) of the grid is board[y + 1][x + 1].                         *)
(***************************************************************************)
\* list(SHAPES.keys())
KindOrder == <<"I", "O", "T", "S", "Z", "J", "L">>

Kinds == {KindOrder[i] : i \in 1..Len(KindOrder)}

\* SHAPES[kind][r]: the four cells of each rotation
SHAPES ==
  [I |-> << <<(<<0, 1>>), (<<1, 1>>), (<<2, 1>>), (<<3, 1>>)>>,
            <<(<<2, 0>>), (<<2, 1>>), (<<2, 2>>), (<<2, 3>>)>>,
            <<(<<0, 2>>), (<<1, 2>>), (<<2, 2>>), (<<3, 2>>)>>,
            <<(<<1, 0>>), (<<1, 1>>), (<<1, 2>>), (<<1, 3>>)>> >>,
   O |-> << <<(<<1, 0>>), (<<2, 0>>), (<<1, 1>>), (<<2, 1>>)>>,
            <<(<<1, 0>>), (<<2, 0>>), (<<1, 1>>), (<<2, 1>>)>>,
            <<(<<1, 0>>), (<<2, 0>>), (<<1, 1>>), (<<2, 1>>)>>,
            <<(<<1, 0>>), (<<2, 0>>), (<<1, 1>>), (<<2, 1>>)>> >>,
   T |-> << <<(<<1, 0>>), (<<0, 1>>), (<<1, 1>>), (<<2, 1>>)>>,
            <<(<<1, 0>>), (<<1, 1>>), (<<2, 1>>), (<<1, 2>>)>>,
            <<(<<0, 1>>), (<<1, 1>>), (<<2, 1>>), (<<1, 2>>)>>,
            <<(<<1, 0>>), (<<0, 1>>), (<<1, 1>>), (<<1, 2>>)>> >>,
   S |-> << <<(<<1, 0>>), (<<2, 0>>), (<<0, 1>>), (<<1, 1>>)>>,
            <<(<<1, 0>>), (<<1, 1>>), (<<2, 1>>), (<<2, 2>>)>>,
            <<(<<1, 1>>), (<<2, 1>>), (<<0, 2>>), (<<1, 2>>)>>,
            <<(<<0, 0>>), (<<0, 1>>), (<<1, 1>>), (<<1, 2>>)>> >>,
   Z |-> << <<(<<0, 0>>), (<<1, 0>>), (<<1, 1>>), (<<2, 1>>)>>,
            <<(<<2, 0>>), (<<1, 1>>), (<<2, 1>>), (<<1, 2>>)>>,
            <<(<<0, 1>>), (<<1, 1>>), (<<1, 2>>), (<<2, 2>>)>>,
            <<(<<1, 0>>), (<<0, 1>>), (<<1, 1>>), (<<0, 2>>)>> >>,
   J |-> << <<(<<0, 0>>), (<<0, 1>>), (<<1, 1>>), (<<2, 1>>)>>,
            <<(<<1, 0>>), (<<2, 0>>), (<<1, 1>>), (<<1, 2>>)>>,
            <<(<<0, 1>>), (<<1, 1>>), (<<2, 1>>), (<<2, 2>>)>>,
            <<(<<1, 0>>), (<<1, 1>>), (<<0, 2>>), (<<1, 2>>)>> >>,
   L |-> << <<(<<2, 0>>), (<<0, 1>>), (<<1, 1>>), (<<2, 1>>)>>,
            <<(<<1, 0>>), (<<1, 1>>), (<<1, 2>>), (<<2, 2>>)>>,
            <<(<<0, 1>>), (<<1, 1>>), (<<2, 1>>), (<<0, 2>>)>>,
            <<(<<0, 0>>), (<<1, 0>>), (<<1, 1>>), (<<1, 2>>)>> >>]

\* Piece.cells
Cells(p) == SHAPES[p.kind][p.r + 1]

\* the grid cell (x, y) the i-th cell of piece p covers
CellX(p, i) == p.x + Cells(p)[i][1]
CellY(p, i) == p.y + Cells(p)[i][2]

\* Piece.rotated(dr)
rotated(p, dr) == Piece(p.kind, p.x, p.y, (p.r + dr) % 4)

\* [[None] * COLS for _ in range(ROWS)]
EmptyBoard == [r \in 1..ROWS |-> EmptyRow]

\* collides(piece) on board b: a cell past the left, right or bottom edge, or on
\* a filled cell; cells above the top row are skipped
collides(b, p) ==
  \E i \in DOMAIN Cells(p) :
    IF CellX(p, i) < 0 \/ CellX(p, i) >= COLS \/ CellY(p, i) >= ROWS THEN TRUE
    ELSE IF CellY(p, i) < 0 THEN FALSE
    ELSE b[CellY(p, i) + 1][CellX(p, i) + 1] # EmptyCell

\* the game's attributes as one value, for the handlers below; `raised` tells
\* that the handler was left by an exception
Game ==
  [board |-> board, current |-> current, next_kind |-> next_kind, bag |-> bag,
   score |-> score, level |-> level, paused |-> paused, game_over |-> game_over,
   spawned |-> spawned, raised |-> FALSE]

\* try_move(dx, dy): the moved piece, and whether it is free
Moved(g, dx, dy) == Piece(g.current.kind, g.current.x + dx, g.current.y + dy, g.current.r)

CanMove(g, dx, dy) == ~collides(g.board, Moved(g, dx, dy))

try_move(g, dx, dy) == IF CanMove(g, dx, dy) THEN [g EXCEPT !.current = Moved(g, dx, dy)] ELSE g

\* try_rotate: the offsets tried, in order
kicks ==
  <<(<<0, 0>>), (<<1, 0>>), (<<-1, 0>>), (<<0, -1>>), (<<2, 0>>), (<<-2, 0>>),
    (<<0, 1>>), (<<1, -1>>), (<<-1, -1>>)>>

\* try_rotate with a defect: only the rotation in place is tried
try_rotate_InPlace(g) ==
  IF ~collides(g.board, rotated(g.current, 1))
    THEN [g EXCEPT !.current = rotated(g.current, 1)]
    ELSE g

\* try_rotate(): the rotated piece at the first offset that is free, else no change
try_rotate(g) ==
  LET rot == rotated(g.current, 1)
      RECURSIVE Try(_)
      Try(i) ==
        IF i > Len(kicks) THEN g
        ELSE LET test == Piece(rot.kind, rot.x + kicks[i][1], rot.y + kicks[i][2], rot.r)
             IN  IF ~collides(g.board, test) THEN [g EXCEPT !.current = test]
                 ELSE Try(i + 1)
  IN  Try(1)

\* Refilled with a defect: the bag is refilled while one kind is still in it
Refilled_Early(b, shuffle) == IF Len(b) <= 1 THEN shuffle ELSE b

\* take_from_bag, lines 127-129: the bag pop() takes from: a fresh shuffle if empty
Refilled(b, shuffle) == IF b = <<>> THEN shuffle ELSE b

\* spawn_piece(): the lookahead becomes the piece at (3, -2), r = 0, and a new
\* lookahead is taken from the bag; game over if the new piece collides
spawn_piece(g, shuffle) ==
  LET from == Refilled(g.bag, shuffle)
      piece == Piece(g.next_kind, 3, -2, 0)
  IN  [g EXCEPT !.next_kind = from[Len(from)],
                !.bag = SubSeq(from, 1, Len(from) - 1),
                !.current = piece,
                !.game_over = IF collides(g.board, piece) THEN TRUE ELSE @,
                !.spawned = (IF Len(@) = Len(KindOrder) THEN <<>> ELSE @)
                              \o <<g.next_kind>>]

\* reset(): empty board, zero score and level, next_kind from a fresh bag, spawn
reset(g, shuffle) ==
  LET from == Refilled(<<>>, shuffle)
  IN  spawn_piece([g EXCEPT !.board = EmptyBoard, !.score = 0, !.level = 0,
                            !.paused = FALSE, !.game_over = FALSE,
                            !.bag = SubSeq(from, 1, Len(from) - 1),
                            !.next_kind = from[Len(from)],
                            !.spawned = <<>>],
                  shuffle)

\* base with a defect: four rows pay as two
base_Capped == [n \in 1..4 |-> IF n = 1 THEN 100 ELSE 300]

\* lock_piece, line 188: base = {1: 100, 2: 300, 3: 500, 4: 800}
base == [n \in 1..4 |-> IF n = 1 THEN 100 ELSE IF n = 2 THEN 300 ELSE IF n = 3 THEN 500 ELSE 800]

\* Merge with a defect: a cell above the top row is skipped and the loop goes
\* on, so the cells of the piece inside the board are written
Merge_SkipsAbove(b, p) ==
  LET RECURSIVE Put(_, _)
      Put(q, i) ==
        IF i > Len(Cells(p)) THEN [board |-> q, over |-> \E j \in DOMAIN Cells(p) : CellY(p, j) < 0]
        ELSE IF CellY(p, i) < 0 THEN Put(q, i + 1)
        ELSE Put([q EXCEPT ![CellY(p, i) + 1][CellX(p, i) + 1] = p.kind], i + 1)
  IN  Put(b, 1)

\* lock_piece, lines 179-185: the cells are written in order; a cell above the
\* top row ends the loop (and the game), the cells before it stay written
Merge(b, p) ==
  LET RECURSIVE Put(_, _)
      Put(q, i) ==
        IF i > Len(Cells(p)) THEN [board |-> q, over |-> FALSE]
        ELSE IF CellY(p, i) < 0 THEN [board |-> q, over |-> TRUE]
        ELSE Put([q EXCEPT ![CellY(p, i) + 1][CellX(p, i) + 1] = p.kind], i + 1)
  IN  Put(b, 1)

\* lock_piece(): merge; game over on a cell above the top; else clear_lines, the
\* bonus of the table and the level (only when rows were cleared), then spawn.
\* A count the table does not hold raises KeyError at line 188: the handler is
\* left with the board merged and cleared, and no piece is spawned.
lock_piece(g, shuffle) ==
  LET m == Merge(g.board, g.current)
      cl == clear_lines(m.board)
      total == g.score + base[cl.count]
  IN  IF m.over THEN [g EXCEPT !.board = m.board, !.game_over = TRUE]
      ELSE IF cl.count = 0 THEN spawn_piece([g EXCEPT !.board = cl.board], shuffle)
      ELSE IF cl.count \notin DOMAIN base THEN [g EXCEPT !.board = cl.board, !.raised = TRUE]
      ELSE spawn_piece([g EXCEPT !.board = cl.board, !.score = total,
                                 !.level = total \div 1000],
                       shuffle)

\* hard_drop(): two points for every row the piece falls, then lock
hard_drop(g, shuffle) ==
  LET RECURSIVE Fall(_)
      Fall(h) == IF CanMove(h, 0, 1)
                   THEN Fall([try_move(h, 0, 1) EXCEPT !.score = @ + 2])
                   ELSE h
  IN  lock_piece(Fall(g), shuffle)

\* the keysyms on_key tells apart
Keys == {"p", "r", "Left", "Right", "Down", "Up", "space"}

\* on_key with a defect: the keys are served after the game has ended
on_key_AfterOver(g, k, shuffle) ==
  IF k = "p" THEN [g EXCEPT !.paused = ~@]
  ELSE IF k = "r" THEN reset(g, shuffle)
  ELSE IF ~g.paused
    THEN CASE k = "Left" -> try_move(g, -1, 0)
           [] k = "Right" -> try_move(g, 1, 0)
           [] k = "Down" -> [try_move(g, 0, 1) EXCEPT !.score = @ + 1]
           [] k = "Up" -> try_rotate(g)
           [] k = "space" -> hard_drop(g, shuffle)
    ELSE g

\* on_key(e)
on_key(g, k, shuffle) ==
  IF k = "p" THEN [g EXCEPT !.paused = ~@]
  ELSE IF k = "r" THEN reset(g, shuffle)
  ELSE IF ~g.paused /\ ~g.game_over
    THEN CASE k = "Left" -> try_move(g, -1, 0)
           [] k = "Right" -> try_move(g, 1, 0)
           [] k = "Down" -> [try_move(g, 0, 1) EXCEPT !.score = @ + 1]
           [] k = "Up" -> try_rotate(g)
           [] k = "space" -> hard_drop(g, shuffle)
    ELSE g

\* game_loop(), when the gravity tick is due (max(80, 800 - level * 55) ms have
\* passed): one row down, or lock; when it is not due nothing changes
game_loop(g, shuffle) ==
  IF ~g.paused /\ ~g.game_over
    THEN IF CanMove(g, 0, 1) THEN try_move(g, 0, 1) ELSE lock_piece(g, shuffle)
    ELSE g

\* random.shuffle(self.bag): the outcomes enumerated, the source's order of
\* kinds turned by every amount, forwards and backwards
Turned(i) == [j \in 1..Len(KindOrder) |-> KindOrder[((j + i - 1) % Len(KindOrder)) + 1]]

Reverse(q) == [j \in 1..Len(q) |-> q[Len(q) + 1 - j]]

ShuffleOutcomes ==
  {Turned(i) : i \in 1..Len(KindOrder)} \cup {Reverse(Turned(i)) : i \in 1..Len(KindOrder)}

\* the outcomes a handler can meet: it shuffles only on reset or on an empty bag
Shuffles(k) == IF k = "r" \/ bag = <<>> THEN ShuffleOutcomes ELSE {KindOrder}

\* the handler's result becomes the game's attributes
SetGame(g) ==
  /\ board' = g.board
  /\ current' = g.current
  /\ next_kind' = g.next_kind
  /\ bag' = g.bag
  /\ score' = g.score
  /\ level' = g.level
  /\ paused' = g.paused
  /\ game_over' = g.game_over
  /\ spawned' = g.spawned

\* a key press is handled; at most `budget` events in one behaviour. An
\* exception leaving on_key is reported by Tk and the main loop goes on.
OnKey(k, budget) ==
  /\ nev < budget
  /\ \E shuffle \in Shuffles(k) :
       LET after == on_key(Game, k, shuffle)
       IN  SetGame(after)
  /\ key' = k
  /\ nev' = nev + 1
  /\ UNCHANGED <<ticking, preBoard, cleared, gpc>>
  /\ UNCHANGED <<serialVars, rxVars>>

\* a due gravity tick is handled. An exception leaving game_loop skips the
\* root.after of line 267: the loop is not scheduled again.
GameLoop(budget) ==
  /\ ticking
  /\ nev < budget
  /\ \E shuffle \in Shuffles("tick") :
       LET after == game_loop(Game, shuffle)
       IN  /\ SetGame(after)
           /\ ticking' = ~after.raised
  /\ key' = "tick"
  /\ nev' = nev + 1
  /\ UNCHANGED <<preBoard, cleared, gpc>>
  /\ UNCHANGED <<serialVars, rxVars>>

\* a game before reset() has filled it in
Blank ==
  [board |-> EmptyBoard, current |-> NoPiece, next_kind |-> "", bag |-> <<>>,
   score |-> 0, level |-> 0, paused |-> FALSE, game_over |-> FALSE,
   spawned |-> <<>>, raised |-> FALSE]

\* the game holds the attributes g, game_loop is scheduled, no event handled yet
Started(g) ==
  /\ SerialInit
  /\ RxIdle
  /\ preBoard = <<>>
  /\ cleared = 0
  /\ gpc = "none"
  /\ board = g.board
  /\ current = g.current
  /\ next_kind = g.next_kind
  /\ bag = g.bag
  /\ score = g.score
  /\ level = g.level
  /\ paused = g.paused
  /\ game_over = g.game_over
  /\ spawned = g.spawned
  /\ ticking = TRUE
  /\ key = "none"
  /\ nev = 0

\* __init__, lines 108-109: self.reset(); self.game_loop()
InitReset == \E shuffle \in ShuffleOutcomes : Started(reset(Blank, shuffle))

(***************************************************************************)
(* SpecBag: a new game in which every piece is hard-dropped where it       *)
(* spawns, for every enumerated shuffle outcome.                           *)
(***************************************************************************)
NextBag == OnKey("space", MaxDrops)

SpecBag == InitReset /\ [][NextBag]_vars

\* C16: counting the spawns from a reset, the spawns 7k+1 .. 7k+7 are seven
\* different kinds, that is each kind once (spawned holds the kinds of the
\* current group of seven, and starts again with the spawn after the seventh).
C16_BagCycle ==
  /\ Len(spawned) <= Len(KindOrder)
  /\ \A i, j \in 1..Len(spawned) : i # j => spawned[i] # spawned[j]
  /\ Len(spawned) = Len(KindOrder) => {spawned[i] : i \in 1..Len(spawned)} = Kinds

\* C16 witness: seven pieces were spawned and locked, the first two of the next
\* seven were spawned, and the game goes on.
C16_Witness ==
  /\ nev = 8
  /\ Len(spawned) = 2
  /\ ~game_over

(***************************************************************************)
(* SpecSoft: a new game in which only the Down key is pressed.             *)
(***************************************************************************)
NextSoft == OnKey("Down", MaxDowns)

SpecSoft == InitReset /\ [][NextSoft]_vars

\* C19: in every state the level is the score divided by 1000, rounded down.
C19_LevelFollowsScore == level = score \div 1000

(***************************************************************************)
(* SpecStack: a game in progress: a stack with a one-cell well at the      *)
(* right edge, an I piece turned upright and moved over the well, and      *)
(* another I as the lookahead (the last kind of one shuffle and the first  *)
(* of the next); the player turns pieces, moves them right and hard-drops  *)
(* them.                                                                   *)
(***************************************************************************)
\* a row filled but for its last cell
WellRow == [c \in 1..COLS |-> IF c = COLS THEN EmptyCell ELSE KindOrder[(c % Len(KindOrder)) + 1]]

\* d such rows at the bottom of an empty board
Well(d) == [r \in 1..ROWS |-> IF r > ROWS - d THEN WellRow ELSE EmptyRow]

StackDepths == {4, 8, 12}

StackKeys == {"Up", "Right", "space"}

InitStack ==
  \E d \in StackDepths, last \in ShuffleOutcomes, shuffle \in ShuffleOutcomes :
    /\ last[1] = "I"
    /\ shuffle[Len(shuffle)] = "I"
    /\ Started([Blank EXCEPT !.board = Well(d),
                             !.current = Piece("I", COLS - 3, -2, 1),
                             !.next_kind = "I",
                             !.bag = SubSeq(shuffle, 1, Len(shuffle) - 1),
                             !.spawned = Reverse(last)])

NextStack == \E k \in StackKeys : OnKey(k, MaxKeys)

SpecStack == InitStack /\ [][NextStack]_vars

\* C14: in every state of a game no cell of the active piece lies on a filled
\* cell of the board, left of column 0, right of the last column or below the
\* last row (cells above the top row are allowed).
C14_PieceFree ==
  current # NoPiece =>
    \A i \in DOMAIN Cells(current) :
      /\ CellX(current, i) >= 0
      /\ CellX(current, i) < COLS
      /\ CellY(current, i) < ROWS
      /\ CellY(current, i) >= 0 => board[CellY(current, i) + 1][CellX(current, i) + 1] = EmptyCell

(***************************************************************************)
(* SpecGame: games in progress. The board is empty or holds a stack with a *)
(* well at the right edge; the active piece is at the top row it spawns in *)
(* or rests on what is below it, in any column and rotation; it is the     *)
(* first kind of a shuffle. Every key and the gravity tick are served.     *)
(***************************************************************************)
\* (depth of the stack, kind of the active piece)
Scenes == ({0} \X Kinds) \cup ({1, 2, 3, 4, 12, ROWS} \X {"I", "T"})

\* piece p is free and cannot go down
Rests(b, p) == ~collides(b, p) /\ collides(b, Piece(p.kind, p.x, p.y + 1, p.r))

StartPieces(b, k) ==
  {p \in [kind : {k}, x : (-2)..(COLS - 1), y : (-2)..(ROWS - 1), r : 0..3] :
     ~collides(b, p) /\ (p.y = -2 \/ Rests(b, p))}

InitGame ==
  \E scene \in Scenes, i \in 1..Len(KindOrder) :
    LET shuffle == Turned(i)
    IN  /\ shuffle[Len(shuffle)] = scene[2]
        /\ \E p \in StartPieces(Well(scene[1]), scene[2]) :
             Started([Blank EXCEPT !.board = Well(scene[1]),
                                   !.current = p,
                                   !.next_kind = shuffle[Len(shuffle) - 1],
                                   !.bag = SubSeq(shuffle, 1, Len(shuffle) - 2),
                                   !.spawned = <<scene[2]>>])

NextGame ==
  \/ \E k \in Keys : OnKey(k, MaxEvents)
  \/ GameLoop(MaxEvents)

SpecGame == InitGame /\ [][NextGame]_vars

\* this step handles the event k
Handled(k) == key' = k /\ nev' = nev + 1

\* the game is neither paused nor over
Playing == ~paused /\ ~game_over

\* the active piece moved down by d rows
Lowered(d) == Piece(current.kind, current.x, current.y + d, current.r)

\* the rows the active piece can fall before something stops it
FallRows ==
  LET RECURSIVE Below(_)
      Below(d) == IF collides(board, Lowered(d + 1)) THEN d ELSE Below(d + 1)
  IN  Below(0)

\* the event k, handled now, locks the piece: a tick when the piece cannot go
\* down, a hard drop always
Locks(k) == IF k = "tick" THEN collides(board, Lowered(1)) ELSE k = "space"

\* the rows the piece falls before the event k locks it
Fallen(k) == IF k = "space" THEN FallRows ELSE 0

\* piece p has a cell above the top row
AboveTop(p) == \E i \in DOMAIN Cells(p) : CellY(p, i) < 0

\* board b with the cells of piece p filled
WithPiece(b, p) ==
  [r \in 1..ROWS |-> [c \in 1..COLS |->
     IF \E i \in DOMAIN Cells(p) : CellX(p, i) = c - 1 /\ CellY(p, i) = r - 1
       THEN p.kind ELSE b[r][c]]]

\* the full rows of board b
FullCount(b) == Cardinality({r \in 1..ROWS : \A c \in 1..COLS : b[r][c] # EmptyCell})

\* the bonus of the scoring table
Bonus(n) == CASE n = 0 -> 0 [] n = 1 -> 100 [] n = 2 -> 300 [] n = 3 -> 500 [] n = 4 -> 800

\* C15: a lock (by a gravity tick or a hard drop) of a piece with a cell above
\* the top row ends the game; and while the game is over, the movement,
\* rotation and drop keys and the gravity ticks change neither the board nor
\* the active piece, spawn nothing, and leave the game over.
C15_GameOverTerminal ==
  /\ [][\A k \in {"tick", "space"} :
          (Handled(k) /\ Playing /\ Locks(k) /\ AboveTop(Lowered(Fallen(k)))) =>
            game_over']_vars
  /\ [][(game_over /\ nev' = nev + 1 /\ key' \in {"Left", "Right", "Down", "Up", "space", "tick"}) =>
          UNCHANGED <<board, current, next_kind, bag, score, level, game_over, spawned>>]_vars

\* C15 witness: the first event ended the game and a Left key was handled after.
C15_Witness ==
  /\ game_over
  /\ nev = 2
  /\ key = "Left"

\* C17: a lock that does not end the game, with n <= 4 rows full once the piece
\* is merged, adds to the score the bonus of the table for n (0, 100, 300, 500,
\* 800), on top of the two points per row a hard drop has paid for the fall.
C17_LockBonus ==
  [][\A k \in {"tick", "space"} :
       (Handled(k) /\ Playing /\ Locks(k)) =>
         LET fell == Fallen(k)
             n == FullCount(WithPiece(board, Lowered(fell)))
         IN  (~AboveTop(Lowered(fell)) /\ n <= 4) =>
               score' = score + 2 * fell + Bonus(n)]_vars

\* C17 witness: one hard drop filled four rows: the score passed 800.
C17_Witness ==
  /\ nev = 1
  /\ key = "space"
  /\ score >= 800
  /\ ~game_over

\* the active piece turned once and shifted by the i-th offset
Kicked(i) ==
  Piece(current.kind, current.x + kicks[i][1], current.y + kicks[i][2], (current.r + 1) % 4)

\* the offsets at which the turned piece is free
FreeKicks == {i \in 1..Len(kicks) : ~collides(board, Kicked(i))}

\* C20: a rotation puts the piece, turned by one step (mod 4), at the first
\* offset of the list at which it is free; if it is free at none, kind, position
\* and rotation stay as they were. The board is not touched.
C20_RotateFirstFit ==
  [][(Handled("Up") /\ Playing) =>
       LET free == FreeKicks
       IN  /\ board' = board
           /\ IF free = {} THEN current' = current
              ELSE current' = Kicked(CHOOSE i \in free : \A j \in free : i <= j)]_vars

\* C20 witness: an upright I at the bottom of a well twelve rows deep was
\* asked to turn, and stayed: it is free at no offset.
C20_Witness ==
  /\ nev = 1
  /\ key = "Up"
  /\ board = Well(12)
  /\ current = Piece("I", COLS - 3, ROWS - 4, 1)


(***************************************************************************)
(* SpecTop: games about to end. The stack reaches the top rows of the      *)
(* board (one empty column keeps its rows from being full); the active     *)
(* piece, of any kind and in any rotation and column, is at the row it     *)
(* spawns in or rests on the stack. It is turned, and locked by a hard     *)
(* drop or a gravity tick.                                                 *)
(***************************************************************************)
\* a row of the stack, filled but for column c
ShaftRow(c) == [x \in 1..COLS |-> IF x = c THEN EmptyCell ELSE KindOrder[(x % Len(KindOrder)) + 1]]

\* d such rows at the bottom of an empty board
Shaft(d, c) == [r \in 1..ROWS |-> IF r > ROWS - d THEN ShaftRow(c) ELSE EmptyRow]

\* (depth of the stack, its empty column, kind of the active piece)
TopScenes == {ROWS - 3, ROWS - 2, ROWS - 1, ROWS} \X {COLS \div 2, COLS} \X Kinds

InitTop ==
  \E scene \in TopScenes, i \in 1..Len(KindOrder) :
    LET shuffle == Turned(i)
        stack == Shaft(scene[1], scene[2])
    IN  /\ shuffle[Len(shuffle)] = scene[3]
        /\ \E p \in StartPieces(stack, scene[3]) :
             Started([Blank EXCEPT !.board = stack,
                                   !.current = p,
                                   !.next_kind = shuffle[Len(shuffle) - 1],
                                   !.bag = SubSeq(shuffle, 1, Len(shuffle) - 2),
                                   !.spawned = <<scene[3]>>])

\* the piece is turned (and may be pushed up a row by the kick), dropped, or
\* pulled down by the gravity tick
TopKeys == {"Up", "space"}

NextTop ==
  \/ \E k \in TopKeys : OnKey(k, MaxEvents)
  \/ GameLoop(MaxEvents)

SpecTop == InitTop /\ [][NextTop]_vars

\* piece p has a cell above the top row and a cell inside the board
Straddles(p) == AboveTop(p) /\ \E i \in DOMAIN Cells(p) : CellY(p, i) >= 0

\* C23: a lock that ends the game (by a gravity tick or a hard drop, the piece
\* having a cell above the top row where it locks) leaves the board and the
\* level as they were and the score as it was when the lock began (a hard drop
\* has paid two points per row of the fall before it locks): no cell of the
\* piece is written, no line is cleared, and no piece is spawned.
C23_EndingLockWritesNothing ==
  [][\A k \in {"tick", "space"} :
       (Handled(k) /\ Playing /\ Locks(k)) =>
         LET fell == Fallen(k)
         IN  AboveTop(Lowered(fell)) =>
               /\ board' = board
               /\ score' = score + 2 * fell
               /\ level' = level
               /\ current' = Lowered(fell)
               /\ UNCHANGED <<next_kind, bag, spawned>>]_vars

\* C23 witness: a hard drop ended the game with an S piece that fell at least
\* one row and locked with cells on both sides of the top row.
C23_Witness ==
  /\ game_over
  /\ nev = 1
  /\ key = "space"
  /\ score > 0
  /\ current.kind = "S"
  /\ Straddles(current)

====
